---- MODULE Spec2Model ----
(***************************************************************************)
(* Signal connection/override manager of tone/build/esm/signal/Signal.js   *)
(* (connectSignal, disconnectSignal and the AbstractParam proxy of Signal) *)
(* together with the Param automation timeline it drives.                  *)
(*                                                                         *)
(* Param.js, Timeline.js and ToneAudioNode.js are not part of the source   *)
(* tree at hand: the timeline and the evaluator follow sections 4.1-4.3 of *)
(* the specification; the graph wiring is recorded as the call made.       *)
(***************************************************************************)
EXTENDS Integers, Sequences, FiniteSets, TLC

(***************************************************************************)
(* Player of tone/build/esm/source/buffer/Player.js: seek, _start, _stop   *)
(* over the state timeline, the active sources and the progress tracking.  *)
(* Source.js, StateTimeline.js, TickParam.js and ToneBufferSource.js are   *)
(* not part of the source tree at hand: the state timeline follows the     *)
(* timeline of section 4.1, a source is recorded as the calls made on it.  *)
(* Sampler of the same file: the note lookup _findClosest over the notes   *)
(* that buffers were provided for.                                         *)
(***************************************************************************)

\* ---------------------------------------------------------------- bounds
MaxTime == 2        \* schedule times and the clock range over 0..MaxTime
MaxVal == 2         \* scheduled values range over 0..MaxVal
MaxRecords == 2     \* connection records held by all the sources together
MaxEvents == 2      \* automation events kept per timeline
InitialValue == 1   \* the value the parameters are constructed with
MaxSources == 2     \* buffer sources a player creates
BufferDuration == 2 \* the duration of the player's buffer

\* JavaScript's undefined, for an omitted numeric argument
Undef == 0 - 1
\* JavaScript's undefined, for an omitted destination
NoDest == "undefined"

Times == 0..MaxTime
\* minValue, maxValue: the parameter's range; the values inside it
MinValue == 0
MaxValue == MaxVal
Values == MinValue..MaxValue
\* values at and just outside the ends of the range
RangeValues == {MinValue - 1, MinValue, MaxValue, MaxValue + 1}
\* time constants and durations: negative, zero, positive
Durations == (0 - 1)..1
\* value curves: inside the range, leaving it above, leaving it below
Curves == {<<MinValue, MaxValue>>, <<MinValue, MaxValue + 1>>, <<MinValue - 1, MaxValue>>}
Idx == {0, 1}
IdxArg == Idx \cup {Undef}

\* -------------------------------------------------------------- objects
\* A Signal source and a SignalOperator source.
Sources == {"sig", "op"}
IsSignalOperator(s) == s = "op"

\* One destination of each class connectSignal tells apart.
Dests == {"param", "audioParam", "signal", "plainSignal", "node"}
IsParam(d) == d = "param"
IsAudioParam(d) == d = "audioParam"
IsSignal(d) == d \in {"signal", "plainSignal"}
\* Signal.override: true as constructed, false in the subclasses that sum
SignalOverride(d) == d = "signal"
\* the destinations with an automation timeline
ParamLike == {d \in Dests : IsParam(d) \/ IsAudioParam(d) \/ IsSignal(d)}

\* variant: the override flag of a Signal is not looked at
OverrideCapableAnySignal(d) == IsParam(d) \/ IsAudioParam(d) \/ IsSignal(d)
\* the test connectSignal and disconnectSignal make of a destination
OverrideCapable(d) ==
    \/ IsParam(d)
    \/ IsAudioParam(d)
    \/ (IsSignal(d) /\ SignalOverride(d))

\* ------------------------------------------------------------- timeline
SetValueT == "setValueAtTime"
LinearRampT == "linearRampToValueAtTime"
ExponentialRampT == "exponentialRampToValueAtTime"
SetTargetT == "setTargetAtTime"
CurveT == "setValueCurveAtTime"
\* the implicit hold a cancellation leaves where it cut a ramp off
HoldT == "hold"

Event(t, ty, v) == [time |-> t, type |-> ty, value |-> v]
\* a SetTarget event carries its time constant, a curve event its values
\* and duration
TargetEvent(t, v, c) == [time |-> t, type |-> SetTargetT, value |-> v, constant |-> c]
CurveEvent(t, vs, dur) ==
    [time |-> t, type |-> CurveT, value |-> vs[1], curve |-> vs, duration |-> dur]

\* the events of tl selected by a predicate on their time
Before(tl, t) == SelectSeq(tl, LAMBDA e : e.time < t)
After(tl, t) == SelectSeq(tl, LAMBDA e : e.time > t)

\* variant: an event already at the same time is kept behind the new one
TimelineInsertKeepBoth(tl, e) ==
    Before(tl, e.time) \o <<e>> \o SelectSeq(tl, LAMBDA x : x.time >= e.time)
\* insert(event): time order kept, an event at the same time is replaced
TimelineInsert(tl, e) == Before(tl, e.time) \o <<e>> \o After(tl, e.time)

\* the latest event at or before t, the first event after t
HasBefore(tl, t) == \E k \in 1..Len(tl) : tl[k].time <= t
GetBefore(tl, t) ==
    LET pre == SelectSeq(tl, LAMBDA e : e.time <= t) IN pre[Len(pre)]
HasAfter(tl, t) == After(tl, t) # <<>>
GetAfter(tl, t) == Head(After(tl, t))

\* linear interpolation between (t0, v0) and (t1, v1), in whole value units
LinearInterpolate(t0, v0, t1, v1, t) ==
    IF v1 >= v0
    THEN v0 + ((v1 - v0) * (t - t0)) \div (t1 - t0)
    ELSE v0 - ((v0 - v1) * (t - t0)) \div (t1 - t0)

\* evaluate(previous, next, queryTime), for SetValue events, linear ramps
\* and holds; exponential, target and curve events are stored by the
\* timeline and not evaluated here (their curves are not whole numbers)
Evaluate(tl, init, t) ==
    IF ~HasBefore(tl, t) THEN init
    ELSE LET b == GetBefore(tl, t) IN
         IF HasAfter(tl, t) /\ GetAfter(tl, t).type = LinearRampT
         THEN LET a == GetAfter(tl, t) IN
              LinearInterpolate(b.time, b.value, a.time, a.value, t)
         ELSE b.value

\* a ramp is active at t: an event precedes t and the first event at or
\* after t is a ramp
RampActive(tl, t) ==
    /\ Before(tl, t) # <<>>
    /\ Len(Before(tl, t)) < Len(tl)
    /\ tl[Len(Before(tl, t)) + 1].type = LinearRampT

\* variant: the events are removed and the ramp's effect is not held
TimelineCancelNoHold(tl, t) == Before(tl, t)
\* cancelFrom(time): every event at or after time is removed; a ramp active
\* at time is cut off there and its value at time is held
TimelineCancel(tl, t) ==
    IF RampActive(tl, t)
    THEN Before(tl, t) \o <<Event(t, HoldT, Evaluate(tl, 0, t))>>
    ELSE Before(tl, t)

\* the events after time are removed
TimelineCancelAfter(tl, t) == SelectSeq(tl, LAMBDA e : e.time <= t)

\* ---------------------------------------------------------------- state
VARIABLES
    now,                \* the clock: the context's current time
    events,             \* events[d]: the automation timeline of destination d
    initialValue,       \* initialValue[d]: the value d was constructed with
    overridden,         \* overridden[d]: the Param/Signal overridden flag
    connectedSignals,   \* the WeakMap source -> list of connection records
    last,               \* the call made last and its outcome
    preConnect,         \* history: the automated parameter's curve as the
                        \* latest connect found it, that connect's time, and
                        \* whether an automation call was made on it since
    player,             \* the fields of a Player
    sampler             \* the buffers of a Sampler and what it last found

vars == <<now, events, initialValue, overridden, connectedSignals, last, preConnect,
          player, sampler>>

\* ------------------------------------------------- the Param interface
\* getValueAtTime(time)
ParamGetValueAtTime(d, t) == Evaluate(events[d], initialValue[d], t)
\* get value: the evaluation at the current time
ParamValue(d) == ParamGetValueAtTime(d, now)
\* variant: no value is out of range
RangeErrorNever(v) == FALSE
\* RangeError: the value is outside [minValue, maxValue]
RangeError(v) == v < MinValue \/ v > MaxValue
\* RangeError: a time constant or a duration that is not positive
NotPositive(k) == k <= 0
CurveRangeError(vs) == \E k \in 1..Len(vs) : RangeError(vs[k])
\* a scheduling call on a timeline: it fails and inserts nothing, or it
\* inserts its event
Schedule(tl, fails, e) == IF fails THEN tl ELSE TimelineInsert(tl, e)
\* setValueAtTime(value, time), on a timeline
ParamSetValueAtTime(tl, v, t) == Schedule(tl, RangeError(v), Event(t, SetValueT, v))
\* linearRampToValueAtTime(value, time), on a timeline
ParamLinearRampToValueAtTime(tl, v, t) ==
    Schedule(tl, RangeError(v), Event(t, LinearRampT, v))
\* exponentialRampToValueAtTime(value, time), on a timeline
ParamExponentialRampToValueAtTime(tl, v, t) ==
    Schedule(tl, RangeError(v), Event(t, ExponentialRampT, v))
\* setTargetAtTime(value, startTime, timeConstant), on a timeline
SetTargetFails(v, c) == RangeError(v) \/ NotPositive(c)
ParamSetTargetAtTime(tl, v, t, c) ==
    Schedule(tl, SetTargetFails(v, c), TargetEvent(t, v, c))
\* setValueCurveAtTime(values, startTime, duration), on a timeline
SetValueCurveFails(vs, dur) == CurveRangeError(vs) \/ NotPositive(dur)
ParamSetValueCurveAtTime(tl, vs, t, dur) ==
    Schedule(tl, SetValueCurveFails(vs, dur), CurveEvent(t, vs, dur))
\* cancelScheduledValues(time), on a timeline
ParamCancelScheduledValues(tl, t) == TimelineCancel(tl, t)
\* cancelAndHoldAtTime(time): a SetValue event at time holding the value
\* evaluated there is inserted, then the events after time are cancelled
ParamCancelAndHoldAtTime(tl, init, t) ==
    TimelineCancelAfter(TimelineInsert(tl, Event(t, SetValueT, Evaluate(tl, init, t))), t)
\* set value: an anchor at the current time, the future schedule is kept
ParamSetValue(tl, v, t) == ParamSetValueAtTime(tl, v, t)

\* ------------------------------------ Signal: the AbstractParam proxy
\* variant: the proxy passes its arguments on in the other order
SignalSetValueAtTimeSwapped(tl, v, t) == ParamSetValueAtTime(tl, t, v)
\* setValueAtTime(value, time) { this._param.setValueAtTime(value, time) }
SignalSetValueAtTime(tl, v, t) == ParamSetValueAtTime(tl, v, t)
SignalGetValueAtTime(d, t) == ParamGetValueAtTime(d, t)
SignalLinearRampToValueAtTime(tl, v, t) == ParamLinearRampToValueAtTime(tl, v, t)
SignalExponentialRampToValueAtTime(tl, v, t) ==
    ParamExponentialRampToValueAtTime(tl, v, t)
SignalSetTargetAtTime(tl, v, t, c) == ParamSetTargetAtTime(tl, v, t, c)
SignalSetValueCurveAtTime(tl, vs, t, dur) == ParamSetValueCurveAtTime(tl, vs, t, dur)
\* variant: the proxy does not pass the time on
SignalCancelScheduledValuesFromZero(tl, t) == ParamCancelScheduledValues(tl, 0)
SignalCancelScheduledValues(tl, t) == ParamCancelScheduledValues(tl, t)
\* variant: the proxy forwards to cancelScheduledValues
SignalCancelAndHoldAtTimeAsCancel(tl, init, t) == ParamCancelScheduledValues(tl, t)
SignalCancelAndHoldAtTime(tl, init, t) == ParamCancelAndHoldAtTime(tl, init, t)
SignalGetValue(d) == ParamValue(d)
\* variant: the assignment cancels the schedule from the current time on
SignalSetValueCancelling(tl, v, t) ==
    ParamSetValueAtTime(ParamCancelScheduledValues(tl, t), v, t)
\* set value(value) { this._param.value = value }
SignalSetValue(tl, v, t) == ParamSetValue(tl, v, t)

\* a call on a destination goes through the proxy when it is a Signal
DestValue(d) == IF IsSignal(d) THEN SignalGetValue(d) ELSE ParamValue(d)
DestGetValueAtTime(d, t) ==
    IF IsSignal(d) THEN SignalGetValueAtTime(d, t) ELSE ParamGetValueAtTime(d, t)
DestSetValueAtTime(d, tl, v, t) ==
    IF IsSignal(d) THEN SignalSetValueAtTime(tl, v, t) ELSE ParamSetValueAtTime(tl, v, t)
DestLinearRampToValueAtTime(d, tl, v, t) ==
    IF IsSignal(d) THEN SignalLinearRampToValueAtTime(tl, v, t)
    ELSE ParamLinearRampToValueAtTime(tl, v, t)
DestCancelScheduledValues(d, tl, t) ==
    IF IsSignal(d) THEN SignalCancelScheduledValues(tl, t)
    ELSE ParamCancelScheduledValues(tl, t)
DestCancelAndHoldAtTime(d, tl, t) ==
    IF IsSignal(d) THEN SignalCancelAndHoldAtTime(tl, initialValue[d], t)
    ELSE ParamCancelAndHoldAtTime(tl, initialValue[d], t)
DestSetValue(d, tl, v, t) ==
    IF IsSignal(d) THEN SignalSetValue(tl, v, t) ELSE ParamSetValue(tl, v, t)

\* ------------------------------------------------------------ the calls
\* op: the call; threw: it ended by throw; graph: the graph call it made
Call(op, threw, graph) == [op |-> op, threw |-> threw, graph |-> graph]
ParamCall(op) == Call(op, FALSE, "none")
\* a scheduling call, which ends by throw when it fails
ScheduleCall(op, fails) == Call(op, fails, "none")

\* connect(signal, destination, outputNum, inputNum) was the last statement
Connected == Call("connect", FALSE, "connect")
\* throw new Error("Not connected to destination node")
Thrown == Call("disconnect", TRUE, "none")
\* variant: the function returns before the graph is disconnected
DisconnectedEarlyReturn == Call("disconnect", FALSE, "none")
\* disconnect(signal, destination, outputNum, inputNum) was the last statement
Disconnected == Call("disconnect", FALSE, "disconnect")

NoRecords == [has |-> FALSE, list |-> <<>>]

\* the destination the automation calls are made on, and its curve
Automated == "param"
Curve == [t \in Times |-> ParamGetValueAtTime(Automated, t)]

\* ---------------------------------------------------------------- Player
\* Player.getDefaults()
PlaybackRate == 1
FadeOut == 0
LoopStart == 0
LoopEnd == 0

Started == "started"
Stopped == "stopped"
\* an event of the state timeline
StateEvent(t, st, implicitEnd) == [time |-> t, state |-> st, implicitEnd |-> implicitEnd]
\* _state.getValueAtTime(time): the state of the latest event at or before
\* time, "stopped" when there is none
StateAtTime(tl, t) == IF HasBefore(tl, t) THEN GetBefore(tl, t).state ELSE Stopped
\* _state.setStateAtTime(state, time, options)
SetStateAtTime(tl, st, t, implicitEnd) == TimelineInsert(tl, StateEvent(t, st, implicitEnd))
\* variant: the events strictly after time are removed
StateCancelAfter(tl, t) == SelectSeq(tl, LAMBDA e : e.time <= t)
\* _state.cancel(time): the events at or after time are removed
StateCancel(tl, t) == Before(tl, t)
\* _state.getLastState("started", time).time
LastStartedTime(tl, t) ==
    LET pre == SelectSeq(tl, LAMBDA e : e.time <= t /\ e.state = Started)
    IN  pre[Len(pre)].time

\* _progressTracker.getTicksAtTime(time): the rate summed over [0, time)
RECURSIVE GetTicksAtTime(_, _)
GetTicksAtTime(tracker, t) ==
    IF t <= 0 THEN 0
    ELSE Evaluate(tracker, 0, t - 1) + GetTicksAtTime(tracker, t - 1)

\* the seeks of the progress-offset events in [from, to)
RECURSIVE SeeksBetween(_, _, _)
SeeksBetween(po, from, to) ==
    IF po = <<>> THEN 0
    ELSE (IF from <= Head(po).time /\ Head(po).time < to THEN Head(po).seek ELSE 0)
         + SeeksBetween(Tail(po), from, to)

\* a buffer source: the arguments of its start call and of the last stop
\* call made on it (Undef: none)
BufferSource(startTime, offset, duration, p) ==
    [start |-> startTime, offset |-> offset, duration |-> duration,
     loop |-> p.loop, loopStart |-> p.loopStart, loopEnd |-> p.loopEnd,
     playbackRate |-> p.playbackRate, stopTime |-> Undef]

\* the player as constructed
NewPlayer(loop) ==
    [state |-> <<>>, activeSources |-> <<>>, progressOffset |-> <<>>,
     progressTracker |-> <<>>, loop |-> loop, synced |-> FALSE,
     loopStart |-> LoopStart, loopEnd |-> LoopEnd, playbackRate |-> PlaybackRate]

Max(a, b) == IF a >= b THEN a ELSE b
\* a % b of the source language: the sign is the dividend's
Rem(a, b) == IF a >= 0 THEN a % b ELSE 0 - ((0 - a) % b)
\* defaultArg(x, d)
DefaultArg(x, d) == IF x = Undef THEN d ELSE x

\* _getProgressAtTime(time)
GetProgressAtTime(p, t) ==
    IF StateAtTime(p.state, t) = Stopped THEN 0
    ELSE LET startTime == LastStartedTime(p.state, t)
             seeksSinceStart == SeeksBetween(p.progressOffset, startTime, t)
             progress == GetTicksAtTime(p.progressTracker, t) + seeksSinceStart
             loopEnd == IF p.loopEnd = 0 THEN BufferDuration ELSE p.loopEnd
             duration == loopEnd - p.loopStart
         IN  IF p.loop THEN Rem(progress, duration) + p.loopStart ELSE progress

\* variant: the end is scheduled on a synced player too
PlayerStartIgnoringSync(p, startTime, offset, duration) ==
    LET computedOffset == DefaultArg(offset, IF p.loop THEN p.loopStart ELSE 0)
        computedDuration ==
            DefaultArg(duration, Max(BufferDuration - computedOffset, 0)) \div p.playbackRate
        source == BufferSource(startTime, computedOffset,
                      IF p.loop /\ duration = Undef THEN Undef
                      ELSE computedDuration - FadeOut, p)
        state == IF ~p.loop
                 THEN SetStateAtTime(StateCancel(p.state, startTime + computedDuration),
                                     Stopped, startTime + computedDuration, TRUE)
                 ELSE p.state
        seekDelta == computedOffset - GetProgressAtTime([p EXCEPT !.state = state], startTime)
    IN  [p EXCEPT !.state = state,
                  !.activeSources = Append(@, source),
                  !.progressOffset = TimelineInsert(@, [time |-> startTime, seek |-> seekDelta]),
                  !.progressTracker = ParamSetValueAtTime(@, p.playbackRate, startTime)]
\* _start(startTime, offset, duration)
PlayerStart(p, startTime, offset, duration) ==
    LET computedOffset == DefaultArg(offset, IF p.loop THEN p.loopStart ELSE 0)
        computedDuration ==
            DefaultArg(duration, Max(BufferDuration - computedOffset, 0)) \div p.playbackRate
        source == BufferSource(startTime, computedOffset,
                      IF p.loop /\ duration = Undef THEN Undef
                      ELSE computedDuration - FadeOut, p)
        state == IF ~p.loop /\ ~p.synced
                 THEN SetStateAtTime(StateCancel(p.state, startTime + computedDuration),
                                     Stopped, startTime + computedDuration, TRUE)
                 ELSE p.state
        seekDelta == computedOffset - GetProgressAtTime([p EXCEPT !.state = state], startTime)
    IN  [p EXCEPT !.state = state,
                  !.activeSources = Append(@, source),
                  !.progressOffset = TimelineInsert(@, [time |-> startTime, seek |-> seekDelta]),
                  !.progressTracker = ParamSetValueAtTime(@, p.playbackRate, startTime)]

\* _stop(time)
PlayerStop(p, t) ==
    [p EXCEPT !.activeSources = [k \in 1..Len(@) |-> [@[k] EXCEPT !.stopTime = t]],
              !.progressTracker = ParamSetValueAtTime(@, 0, t)]

\* _state.getNextState(state, time): the first event after time that has
\* the state
HasNextState(tl, st, t) == \E k \in 1..Len(tl) : tl[k].time > t /\ tl[k].state = st
GetNextState(tl, st, t) == Head(SelectSeq(tl, LAMBDA e : e.time > t /\ e.state = st))

\* the sequence without its element at position k
RemoveAt(seq, k) == SubSeq(seq, 1, k - 1) \o SubSeq(seq, k + 1, Len(seq))

\* variant: the state is rewritten whenever a source ends
onSourceEndAlways(p, k, t) ==
    [p EXCEPT !.activeSources = RemoveAt(@, k),
              !.state = SetStateAtTime(StateCancel(@, t), Stopped, t, FALSE)]
\* _onSourceEnd(source), the source at position k of the set, at time t
onSourceEnd(p, k, t) ==
    LET rest == RemoveAt(p.activeSources, k) IN
    IF rest = <<>> /\ ~p.synced /\ StateAtTime(p.state, t) = Started
    THEN [p EXCEPT !.activeSources = rest,
                   !.state = SetStateAtTime(StateCancel(@, t), Stopped, t, FALSE)]
    ELSE [p EXCEPT !.activeSources = rest]

\* variant: every active source is stopped
PlayerRestartStoppingAll(p, t, offset, duration) ==
    PlayerStart([p EXCEPT !.activeSources =
                     [k \in 1..Len(@) |-> [@[k] EXCEPT !.stopTime = t]]],
                t, offset, duration)
\* _restart(time, offset, duration)
PlayerRestart(p, t, offset, duration) ==
    PlayerStart([p EXCEPT !.activeSources =
                     [k \in 1..Len(@) |->
                         IF k = Len(@) THEN [@[k] EXCEPT !.stopTime = t] ELSE @[k]]],
                t, offset, duration)

\* the active sources, each with field f set to v
SourcesWith(srcs, f, v) == [k \in 1..Len(srcs) |-> [srcs[k] EXCEPT ![f] = v]]

\* variant: the next stop is rescheduled whether implicit or not
SetPlaybackRateAnyStop(p, rate, t) ==
    LET p1 == [p EXCEPT !.playbackRate = rate,
                        !.progressTracker = ParamSetValueAtTime(@, rate, t)]
    IN  IF HasNextState(p.state, Stopped, t)
        THEN LET stopEvent == GetNextState(p.state, Stopped, t)
                 p2 == [p1 EXCEPT !.state = StateCancel(@, stopEvent.time),
                                  !.activeSources = SourcesWith(@, "stopTime", Undef)]
                 remainingTime == BufferDuration - GetProgressAtTime(p2, t)
                 newStopTime == t + remainingTime \div rate
             IN  [p2 EXCEPT !.state = SetStateAtTime(@, Stopped, newStopTime, TRUE),
                            !.activeSources = SourcesWith(@, "playbackRate", rate)]
        ELSE [p1 EXCEPT !.activeSources = SourcesWith(@, "playbackRate", rate)]
\* set playbackRate(rate), at time t
SetPlaybackRate(p, rate, t) ==
    LET p1 == [p EXCEPT !.playbackRate = rate,
                        !.progressTracker = ParamSetValueAtTime(@, rate, t)]
    IN  IF /\ HasNextState(p.state, Stopped, t)
           /\ GetNextState(p.state, Stopped, t).implicitEnd
        THEN LET stopEvent == GetNextState(p.state, Stopped, t)
                 p2 == [p1 EXCEPT !.state = StateCancel(@, stopEvent.time),
                                  !.activeSources = SourcesWith(@, "stopTime", Undef)]
                 remainingTime == BufferDuration - GetProgressAtTime(p2, t)
                 newStopTime == t + remainingTime \div rate
             IN  [p2 EXCEPT !.state = SetStateAtTime(@, Stopped, newStopTime, TRUE),
                            !.activeSources = SourcesWith(@, "playbackRate", rate)]
        ELSE [p1 EXCEPT !.activeSources = SourcesWith(@, "playbackRate", rate)]

\* variant: the next stop is cancelled whatever the new value
SetLoopCancelling(p, loop, t) ==
    IF p.loop = loop THEN p
    ELSE LET q == [p EXCEPT !.loop = loop,
                            !.activeSources = SourcesWith(@, "loop", loop)]
         IN  IF HasNextState(p.state, Stopped, t)
             THEN [q EXCEPT !.state =
                       StateCancel(@, GetNextState(p.state, Stopped, t).time)]
             ELSE q
\* set loop(loop), at time t
SetLoop(p, loop, t) ==
    IF p.loop = loop THEN p
    ELSE LET q == [p EXCEPT !.loop = loop,
                            !.activeSources = SourcesWith(@, "loop", loop)]
         IN  IF loop /\ HasNextState(p.state, Stopped, t)
             THEN [q EXCEPT !.state =
                       StateCancel(@, GetNextState(p.state, Stopped, t).time)]
             ELSE q

\* assertRange(value, 0, buffer.duration) fails
OutOfBuffer(v) == v < 0 \/ v > BufferDuration
\* what an assignment leaves: the player and whether it threw
Assigned(p, threw) == [player |-> p, threw |-> threw]
\* set loopStart(loopStart), the buffer loaded
SetLoopStart(p, v) ==
    IF OutOfBuffer(v)
    THEN Assigned([p EXCEPT !.loopStart = v], TRUE)
    ELSE Assigned([p EXCEPT !.loopStart = v,
                            !.activeSources = SourcesWith(@, "loopStart", v)], FALSE)
\* set loopEnd(loopEnd), the buffer loaded
SetLoopEnd(p, v) ==
    IF OutOfBuffer(v)
    THEN Assigned([p EXCEPT !.loopEnd = v], TRUE)
    ELSE Assigned([p EXCEPT !.loopEnd = v,
                            !.activeSources = SourcesWith(@, "loopEnd", v)], FALSE)

\* Source.restart(time, offset, duration): on a player started at time the
\* state events from time on are cancelled and _restart is called
SourceRestart(p, t, offset, duration) ==
    IF StateAtTime(p.state, t) = Started
    THEN PlayerRestart([p EXCEPT !.state = StateCancel(@, t)], t, offset, duration)
    ELSE p

\* variant: the seek is made whatever the state
seekUnguarded(p, offset, when) ==
    PlayerStart([PlayerStop(p, when) EXCEPT !.state = StateCancel(@, when)],
                when, offset, Undef)
\* seek(offset, when)
seek(p, offset, when) ==
    IF StateAtTime(p.state, when) = Started
    THEN PlayerStart([PlayerStop(p, when) EXCEPT !.state = StateCancel(@, when)],
                     when, offset, Undef)
    ELSE p

\* Source.start(time, offset, duration) on a player that is not started at
\* time: the state becomes "started" at time, then _start is called
SourceStart(p, t, offset, duration) ==
    PlayerStart([p EXCEPT !.state = SetStateAtTime(@, Started, t, FALSE)],
                t, offset, duration)
\* Source.stop(time): _stop is called, the state events from time on are
\* cancelled and the state becomes "stopped" at time
SourceStop(p, t) ==
    [PlayerStop(p, t) EXCEPT !.state = SetStateAtTime(StateCancel(@, t), Stopped, t, FALSE)]

PlayerCall(op) == Call(op, FALSE, "none")
PlayerFrame == UNCHANGED <<now, events, initialValue, overridden, connectedSignals,
                           preConnect, sampler>>

Start(t, offset, duration) ==
    /\ StateAtTime(player.state, t) # Started
    /\ player' = SourceStart(player, t, offset, duration)
    /\ last' = PlayerCall("start")
    /\ PlayerFrame

Stop(t) ==
    /\ player' = SourceStop(player, t)
    /\ last' = PlayerCall("stop")
    /\ PlayerFrame

Seek(offset, when) ==
    /\ player' = seek(player, offset, when)
    /\ last' = PlayerCall("seek")
    /\ PlayerFrame

Restart(t, offset, duration) ==
    /\ player' = SourceRestart(player, t, offset, duration)
    /\ last' = PlayerCall("restart")
    /\ PlayerFrame

\* the source at position k has played to its end or to its stop time
Ended(src, t) ==
    \/ src.stopTime # Undef /\ src.stopTime <= t
    \/ src.duration # Undef /\ src.start + src.duration <= t
\* the onended callback of the source at position k
SourceEnd(k) ==
    /\ Ended(player.activeSources[k], now)
    /\ player' = onSourceEnd(player, k, now)
    /\ last' = PlayerCall("onended")
    /\ PlayerFrame

AssignPlaybackRate(rate) ==
    /\ player' = SetPlaybackRate(player, rate, now)
    /\ last' = PlayerCall("playbackRate")
    /\ PlayerFrame

AssignLoop(loop) ==
    /\ player' = SetLoop(player, loop, now)
    /\ last' = PlayerCall("loop")
    /\ PlayerFrame

AssignLoopStart(v) ==
    /\ \E r \in {SetLoopStart(player, v)} :
          /\ player' = r.player
          /\ last' = Call("loopStart", r.threw, "none")
    /\ PlayerFrame

AssignLoopEnd(v) ==
    /\ \E r \in {SetLoopEnd(player, v)} :
          /\ player' = r.player
          /\ last' = Call("loopEnd", r.threw, "none")
    /\ PlayerFrame

\* --------------------------------------------------------------- Sampler
\* const MAX_INTERVAL = 96
MAX_INTERVAL == 96

\* what _findClosest leaves: the difference returned, or the error thrown
Found(difference) == [threw |-> FALSE, difference |-> difference]
NoAvailableBuffers == [threw |-> TRUE, difference |-> 0]
NotSearched == [threw |-> FALSE, difference |-> 0]

\* the sampler as constructed with buffers for the notes of urls
NewSampler(urls) == [buffers |-> urls, midi |-> 0, found |-> NotSearched]

\* the values interval takes in `while (interval < MAX_INTERVAL)`
Intervals == 0..(MAX_INTERVAL - 1)
\* the intervals at which one of the two tests of the loop body succeeds
Hits(buffers, midi) ==
    {i \in Intervals : midi + i \in buffers \/ midi - i \in buffers}
\* variant: at each interval the note below is tested first
SearchBelowFirst(buffers, midi) ==
    IF Hits(buffers, midi) = {}
    THEN NoAvailableBuffers
    ELSE LET interval == CHOOSE i \in Hits(buffers, midi) :
                             \A j \in Hits(buffers, midi) : i <= j
         IN  IF midi - interval \in buffers
             THEN Found(interval)
             ELSE Found(0 - interval)
\* the while loop of _findClosest: it returns at the first interval that
\* hits, the note above tested first, and throws when it runs out
Search(buffers, midi) ==
    IF Hits(buffers, midi) = {}
    THEN NoAvailableBuffers
    ELSE LET interval == CHOOSE i \in Hits(buffers, midi) :
                             \A j \in Hits(buffers, midi) : i <= j
         IN  IF midi + interval \in buffers
             THEN Found(0 - interval)
             ELSE Found(interval)

\* _findClosest(midi)
findClosest(buffers, midi) == Search(buffers, midi)

SamplerFrame == UNCHANGED <<now, events, initialValue, overridden, connectedSignals,
                            preConnect, player>>

\* add(note, url): a buffer is provided for the midi note
SamplerAdd(note) ==
    /\ sampler' = [sampler EXCEPT !.buffers = @ \cup {note}]
    /\ last' = Call("add", FALSE, "none")
    /\ SamplerFrame

\* a call of _findClosest(midi), as triggerAttack makes it
FindClosest(midi) ==
    /\ \E r \in {findClosest(sampler.buffers, midi)} :
          /\ sampler' = [sampler EXCEPT !.midi = midi, !.found = r]
          /\ last' = Call("_findClosest", r.threw, "none")
    /\ SamplerFrame

Init ==
    /\ now = 0
    /\ events = [d \in Dests |-> <<>>]
    /\ initialValue = [d \in Dests |-> IF d \in ParamLike THEN InitialValue ELSE 0]
    /\ overridden = [d \in Dests |-> FALSE]
    /\ connectedSignals = [s \in Sources |-> NoRecords]
    /\ last = ParamCall("new")
    /\ preConnect = [curve |-> [t \in Times |-> InitialValue], at |-> 0,
                     touched |-> FALSE]
    /\ player = NewPlayer(FALSE)
    /\ sampler = NewSampler({})

\* ------------------------------------------------------- connectSignal
\* x || 0
OrZero(x) == IF x = Undef THEN 0 ELSE x
\* a parameter default of 0: (x = 0) in the parameter list
Default0(x) == IF x = Undef THEN 0 ELSE x

\* variant: the schedule is not cancelled before the value is reset
ZeroedEventsNoCancel(d) == DestSetValueAtTime(d, events[d], 0, 0)
\* destination.cancelScheduledValues(0); destination.setValueAtTime(0, 0)
ZeroedEvents(d) ==
    DestSetValueAtTime(d, DestCancelScheduledValues(d, events[d], 0), 0, 0)

\* variant: the snapshot is taken after the destination was zeroed
PreviousValueAfterZeroing(d) == Evaluate(ZeroedEvents(d), initialValue[d], now)
\* const previousValue = destination.value
PreviousValue(d) == DestValue(d)

\* destination.overridden = true, for a Signal or a Param
MarkOverridden(d) ==
    IF IsSignal(d) \/ IsParam(d) THEN [overridden EXCEPT ![d] = TRUE] ELSE overridden

ConnectionRecord(d, o, i, pv) ==
    [destination |-> d, outputNum |-> OrZero(o), inputNum |-> OrZero(i),
     previousValue |-> pv]

\* connectedSignals.get(signal).push(record), the list created when absent
PushRecord(s, rec) ==
    [connectedSignals EXCEPT ![s] = [has |-> TRUE, list |-> Append(@.list, rec)]]

\* what a call leaves: the destinations' timelines and flags, the records
\* and the outcome; the clock and the constructed values are not written
Nothing(outcome) ==
    [events |-> events, overridden |-> overridden,
     connectedSignals |-> connectedSignals, last |-> outcome]
Apply(r) ==
    /\ events' = r.events
    /\ overridden' = r.overridden
    /\ connectedSignals' = r.connectedSignals
    /\ last' = r.last
    /\ UNCHANGED <<now, initialValue>>

\* connectSignal(signal, destination, outputNum, inputNum): what it leaves
connectSignal(s, d, o, i) ==
    IF OverrideCapable(d)
    THEN [events |-> [events EXCEPT ![d] = ZeroedEvents(d)],
          overridden |-> MarkOverridden(d),
          connectedSignals |->
              PushRecord(s, ConnectionRecord(d, o, i, PreviousValue(d))),
          last |-> Connected]
    ELSE Nothing(Connected)

\* Signal.connect and SignalOperator.connect: both indices default to 0
NodeConnect(s, d, o, i) == connectSignal(s, d, Default0(o), Default0(i))
Connect(s, d, o, i) == \E r \in {NodeConnect(s, d, o, i)} : Apply(r)

\* ---------------------------------------------------- disconnectSignal
\* variant: the input index is not compared
MatchesIgnoringInput(conn, d, o, i) ==
    /\ conn.destination = d
    /\ (o = Undef \/ conn.outputNum = o)
\* the test of connections.filter(...)
Matches(conn, d, o, i) ==
    /\ conn.destination = d
    /\ (o = Undef \/ conn.outputNum = o)
    /\ (i = Undef \/ conn.inputNum = i)

\* let connections = ...: the positions of the list that are kept, all of
\* them when the destination is omitted
Selected(s, d, o, i) ==
    LET list == connectedSignals[s].list IN
    IF d # NoDest
    THEN {k \in 1..Len(list) : Matches(list[k], d, o, i)}
    ELSE 1..Len(list)

\* the elements of list at the positions in ks, in list order
RECURSIVE Pick(_, _, _)
Pick(list, ks, k) ==
    IF k > Len(list) THEN <<>>
    ELSE (IF k \in ks THEN <<list[k]>> ELSE <<>>) \o Pick(list, ks, k + 1)

\* variant: the overridden flag is left as it is
RestoreOverriddenNever(ov, conns) == ov
\* connections.forEach: connection.destination.overridden = false
RECURSIVE RestoreOverridden(_, _)
RestoreOverridden(ov, conns) ==
    IF conns = <<>> THEN ov
    ELSE LET d == Head(conns).destination IN
         RestoreOverridden(
             IF IsSignal(d) \/ IsParam(d) THEN [ov EXCEPT ![d] = FALSE] ELSE ov,
             Tail(conns))

\* variant: only the first of the selected connections is restored
RestoreEventsFirstOnly(ev, conns) ==
    IF conns = <<>> THEN ev
    ELSE [ev EXCEPT ![Head(conns).destination] =
             DestSetValueAtTime(Head(conns).destination, @, Head(conns).previousValue, 0)]
\* variant: the destinations are left zeroed
RestoreEventsNever(ev, conns) == ev
\* connections.forEach: destination.setValueAtTime(previousValue, 0)
RECURSIVE RestoreEvents(_, _)
RestoreEvents(ev, conns) ==
    IF conns = <<>> THEN ev
    ELSE LET c == Head(conns) IN
         RestoreEvents(
             [ev EXCEPT ![c.destination] =
                 DestSetValueAtTime(c.destination, @, c.previousValue, 0)],
             Tail(conns))

\* variant: the whole list of the source is dropped
RemoveRecordsAll(s, ks) ==
    [connectedSignals EXCEPT ![s] = [has |-> TRUE, list |-> <<>>]]
\* connectedSignals.set(signal, list.filter(conn => !connections.includes(conn)))
RemoveRecords(s, ks) ==
    LET list == connectedSignals[s].list IN
    [connectedSignals EXCEPT
        ![s] = [has |-> TRUE, list |-> Pick(list, (1..Len(list)) \ ks, 1)]]

\* the guard of the restoring branch
LooksUpRecords(s, d) ==
    /\ (d = NoDest \/ OverrideCapable(d))
    /\ connectedSignals[s].has

\* variant: an empty selection is not an error
NotConnectedNever(conns) == FALSE
\* if (!connections.length)
NotConnected(conns) == conns = <<>>

\* variant: the records are restored before the selection is tested
disconnectSignalRestoringFirst(s, d, o, i) ==
    IF LooksUpRecords(s, d)
    THEN LET ks == Selected(s, d, o, i)
             conns == Pick(connectedSignals[s].list, ks, 1)
         IN  IF NotConnected(conns)
             THEN [events |-> RestoreEvents(events, connectedSignals[s].list),
                   overridden |-> RestoreOverridden(overridden, connectedSignals[s].list),
                   connectedSignals |-> connectedSignals,
                   last |-> Thrown]
             ELSE [events |-> RestoreEvents(events, conns),
                   overridden |-> RestoreOverridden(overridden, conns),
                   connectedSignals |-> RemoveRecords(s, ks),
                   last |-> Disconnected]
    ELSE Nothing(Disconnected)
\* disconnectSignal(signal, destination, outputNum, inputNum): what it leaves
disconnectSignal(s, d, o, i) ==
    IF LooksUpRecords(s, d)
    THEN LET ks == Selected(s, d, o, i)
             conns == Pick(connectedSignals[s].list, ks, 1)
         IN  IF NotConnected(conns)
             THEN Nothing(Thrown)
             ELSE [events |-> RestoreEvents(events, conns),
                   overridden |-> RestoreOverridden(overridden, conns),
                   connectedSignals |-> RemoveRecords(s, ks),
                   last |-> Disconnected]
    ELSE Nothing(Disconnected)

\* Signal.disconnect passes its arguments on; SignalOperator.disconnect
\* defaults both indices to 0
NodeDisconnect(s, d, o, i) ==
    IF IsSignalOperator(s)
    THEN disconnectSignal(s, d, Default0(o), Default0(i))
    ELSE disconnectSignal(s, d, o, i)
Disconnect(s, d, o, i) == \E r \in {NodeDisconnect(s, d, o, i)} : Apply(r)

\* ------------------------------------------- scheduling on a destination
SetValueAtTime(d, v, t) ==
    /\ events' = [events EXCEPT ![d] = DestSetValueAtTime(d, @, v, t)]
    /\ last' = ScheduleCall("setValueAtTime", RangeError(v))
    /\ UNCHANGED <<now, initialValue, overridden, connectedSignals>>

LinearRampToValueAtTime(d, v, t) ==
    /\ events' = [events EXCEPT ![d] = DestLinearRampToValueAtTime(d, @, v, t)]
    /\ last' = ScheduleCall("linearRampToValueAtTime", RangeError(v))
    /\ UNCHANGED <<now, initialValue, overridden, connectedSignals>>

\* the remaining scheduling calls, made on a Signal
ExponentialRampToValueAtTime(d, v, t) ==
    /\ events' = [events EXCEPT ![d] = SignalExponentialRampToValueAtTime(@, v, t)]
    /\ last' = ScheduleCall("exponentialRampToValueAtTime", RangeError(v))
    /\ UNCHANGED <<now, initialValue, overridden, connectedSignals>>

SetTargetAtTime(d, v, t, c) ==
    /\ events' = [events EXCEPT ![d] = SignalSetTargetAtTime(@, v, t, c)]
    /\ last' = ScheduleCall("setTargetAtTime", SetTargetFails(v, c))
    /\ UNCHANGED <<now, initialValue, overridden, connectedSignals>>

SetValueCurveAtTime(d, vs, t, dur) ==
    /\ events' = [events EXCEPT ![d] = SignalSetValueCurveAtTime(@, vs, t, dur)]
    /\ last' = ScheduleCall("setValueCurveAtTime", SetValueCurveFails(vs, dur))
    /\ UNCHANGED <<now, initialValue, overridden, connectedSignals>>

CancelScheduledValues(d, t) ==
    /\ events' = [events EXCEPT ![d] = DestCancelScheduledValues(d, @, t)]
    /\ last' = ParamCall("cancelScheduledValues")
    /\ UNCHANGED <<now, initialValue, overridden, connectedSignals>>

CancelAndHoldAtTime(d, t) ==
    /\ events' = [events EXCEPT ![d] = DestCancelAndHoldAtTime(d, @, t)]
    /\ last' = ParamCall("cancelAndHoldAtTime")
    /\ UNCHANGED <<now, initialValue, overridden, connectedSignals>>

\* destination.value = v
SetValue(d, v) ==
    /\ events' = [events EXCEPT ![d] = DestSetValue(d, @, v, now)]
    /\ last' = ScheduleCall("value", RangeError(v))
    /\ UNCHANGED <<now, initialValue, overridden, connectedSignals>>

\* the context's clock advances
Tick ==
    /\ now < MaxTime
    /\ now' = now + 1
    /\ UNCHANGED <<events, initialValue, overridden, connectedSignals, last>>

\* the times and buffer offsets of the calls made on the player
Offsets == 0..BufferDuration
FromNow == now..MaxTime
\* a call that creates a source can be made
CanCreate == Len(player.activeSources) < MaxSources
\* a restart stops one source and creates one
CanRestart == Len(player.activeSources) <= MaxSources
\* the playback rates and the loop points assigned
Rates == 1..MaxValue
LoopPoints == (0 - 1)..(BufferDuration + 1)
\* the duration _start computes is a whole number of time units
ExactDuration(p, offset, duration) ==
    DefaultArg(duration,
               Max(BufferDuration - DefaultArg(offset, IF p.loop THEN p.loopStart ELSE 0), 0))
        % p.playbackRate = 0
\* the stop time the playbackRate setter computes is a whole number
ExactStop(p, rate, t) == (BufferDuration - GetProgressAtTime(p, t)) % rate = 0
\* the loop of the player is not empty
LoopNotEmpty(p) == (IF p.loopEnd = 0 THEN BufferDuration ELSE p.loopEnd) > p.loopStart

\* ------------------------------------------------------------ the system
\* the number of records held by all the sources
RECURSIVE SumLen(_)
SumLen(S) ==
    IF S = {} THEN 0
    ELSE LET s == CHOOSE x \in S : TRUE IN
         Len(connectedSignals[s].list) + SumLen(S \ {s})
TotalRecords == SumLen(Sources)

\* the index arguments connect and disconnect are called with
ConnectArgs == {<<Undef, Undef>>, <<1, Undef>>, <<Undef, 1>>}
DisconnectArgs == {<<Undef, Undef>>, <<1, Undef>>, <<Undef, 1>>, <<0, 0>>}
\* an automation event is added while the timeline has room for it
CanSchedule(d, t) ==
    \/ Len(events[d]) < MaxEvents
    \/ \E k \in 1..Len(events[d]) : events[d][k].time = t

\* The connection manager: every source, destination and index; of the
\* automation calls, a ramp that leaves one event in the future.
Next ==
    \/ \E s \in Sources, d \in Dests, a \in ConnectArgs :
          /\ TotalRecords < MaxRecords
          /\ Connect(s, d, a[1], a[2])
          /\ UNCHANGED <<preConnect, player, sampler>>
    \/ \E s \in Sources, d \in Dests \cup {NoDest}, a \in DisconnectArgs :
          /\ Disconnect(s, d, a[1], a[2])
          /\ UNCHANGED <<preConnect, player, sampler>>
    \/ /\ LinearRampToValueAtTime(Automated, MaxVal, MaxTime)
       /\ UNCHANGED <<preConnect, player, sampler>>

Spec == Init /\ [][Next]_vars

\* the snapshot is void once the parameter is scheduled again
Touched == [curve |-> [t \in Times |-> 0], at |-> 0, touched |-> TRUE]

\* One writer: a single source overriding the automated parameter, one
\* connection at a time, while the parameter is automated and the clock runs.
NextOverride ==
    \/ /\ TotalRecords = 0
       /\ Connect("sig", Automated, Undef, Undef)
       /\ preConnect' = [curve |-> Curve, at |-> now, touched |-> FALSE]
       /\ UNCHANGED <<player, sampler>>
    \/ \E d \in {Automated, NoDest} :
          /\ Disconnect("sig", d, Undef, Undef)
          /\ UNCHANGED <<preConnect, player, sampler>>
    \/ \E v \in Values, t \in Times :
          /\ CanSchedule(Automated, t)
          /\ SetValueAtTime(Automated, v, t)
          /\ preConnect' = Touched
          /\ UNCHANGED <<player, sampler>>
    \/ \E v \in Values, t \in Times :
          /\ CanSchedule(Automated, t)
          /\ LinearRampToValueAtTime(Automated, v, t)
          /\ preConnect' = Touched
          /\ UNCHANGED <<player, sampler>>
    \/ Tick /\ UNCHANGED <<preConnect, player, sampler>>

SpecOverride == Init /\ [][NextOverride]_vars

\* The automation calls alone, made on a Signal.
NextParam ==
    \/ \E v \in Values, t \in Times :
          /\ CanSchedule("signal", t)
          /\ SetValueAtTime("signal", v, t)
          /\ UNCHANGED <<preConnect, player, sampler>>
    \/ \E v \in Values, t \in Times :
          /\ CanSchedule("signal", t)
          /\ LinearRampToValueAtTime("signal", v, t)
          /\ UNCHANGED <<preConnect, player, sampler>>
    \/ \E t \in Times :
          /\ CancelScheduledValues("signal", t)
          /\ UNCHANGED <<preConnect, player, sampler>>
    \/ \E v \in Values :
          /\ CanSchedule("signal", now)
          /\ SetValue("signal", v)
          /\ UNCHANGED <<preConnect, player, sampler>>
    \/ Tick /\ UNCHANGED <<preConnect, player, sampler>>

SpecParam == Init /\ [][NextParam]_vars

\* The automation calls and both cancellations, made on a Signal.
NextSchedule ==
    \/ \E v \in Values, t \in Times :
          /\ CanSchedule("signal", t)
          /\ SetValueAtTime("signal", v, t)
          /\ UNCHANGED <<preConnect, player, sampler>>
    \/ \E v \in Values, t \in Times :
          /\ CanSchedule("signal", t)
          /\ LinearRampToValueAtTime("signal", v, t)
          /\ UNCHANGED <<preConnect, player, sampler>>
    \/ \E t \in Times :
          /\ CancelScheduledValues("signal", t)
          /\ UNCHANGED <<preConnect, player, sampler>>
    \/ \E t \in Times :
          /\ CanSchedule("signal", t)
          /\ CancelAndHoldAtTime("signal", t)
          /\ UNCHANGED <<preConnect, player, sampler>>

SpecSchedule == Init /\ [][NextSchedule]_vars

\* The five scheduling calls, made on a Signal with values at and around the
\* ends of its range and with time constants and durations around zero.
NextRange ==
    \/ \E v \in RangeValues, t \in Times :
          /\ CanSchedule("signal", t)
          /\ SetValueAtTime("signal", v, t)
          /\ UNCHANGED <<preConnect, player, sampler>>
    \/ \E v \in RangeValues, t \in Times :
          /\ CanSchedule("signal", t)
          /\ LinearRampToValueAtTime("signal", v, t)
          /\ UNCHANGED <<preConnect, player, sampler>>
    \/ \E v \in RangeValues, t \in Times :
          /\ CanSchedule("signal", t)
          /\ ExponentialRampToValueAtTime("signal", v, t)
          /\ UNCHANGED <<preConnect, player, sampler>>
    \/ \E v \in RangeValues, t \in Times, c \in Durations :
          /\ CanSchedule("signal", t)
          /\ SetTargetAtTime("signal", v, t, c)
          /\ UNCHANGED <<preConnect, player, sampler>>
    \/ \E vs \in Curves, t \in Times, dur \in Durations :
          /\ CanSchedule("signal", t)
          /\ SetValueCurveAtTime("signal", vs, t, dur)
          /\ UNCHANGED <<preConnect, player, sampler>>

SpecRange == Init /\ [][NextRange]_vars

\* One source connecting to the automated parameter any number of times
\* before it disconnects from it; the parameter is scheduled only while no
\* connection is recorded, and the history keeps what the first connect of
\* a series found.
NextRepeat ==
    \/ \E a \in ConnectArgs :
          /\ TotalRecords < MaxRecords
          /\ Connect("sig", Automated, a[1], a[2])
          /\ preConnect' = IF TotalRecords = 0
                            THEN [curve |-> Curve, at |-> now, touched |-> FALSE]
                            ELSE preConnect
          /\ UNCHANGED <<player, sampler>>
    \/ /\ Disconnect("sig", Automated, Undef, Undef)
       /\ UNCHANGED <<preConnect, player, sampler>>
    \/ \E v \in Values, t \in Times :
          /\ TotalRecords = 0
          /\ CanSchedule(Automated, t)
          /\ SetValueAtTime(Automated, v, t)
          /\ preConnect' = Touched
          /\ UNCHANGED <<player, sampler>>
    \/ Tick /\ UNCHANGED <<preConnect, player, sampler>>

SpecRepeat == Init /\ [][NextRepeat]_vars

\* A player constructed looping or not, started, stopped and sought while
\* the clock runs.
InitPlayer ==
    /\ now = 0
    /\ events = [d \in Dests |-> <<>>]
    /\ initialValue = [d \in Dests |-> IF d \in ParamLike THEN InitialValue ELSE 0]
    /\ overridden = [d \in Dests |-> FALSE]
    /\ connectedSignals = [s \in Sources |-> NoRecords]
    /\ last = PlayerCall("new")
    /\ preConnect = [curve |-> [t \in Times |-> InitialValue], at |-> 0,
                     touched |-> FALSE]
    /\ \E loop \in BOOLEAN : player = NewPlayer(loop)
    /\ sampler = NewSampler({})

NextPlayer ==
    \/ \E t \in FromNow, offset \in Offsets \cup {Undef}, duration \in {Undef, 1} :
          /\ CanCreate
          /\ Start(t, offset, duration)
    \/ \E t \in FromNow : Stop(t)
    \/ \E offset \in Offsets, when \in FromNow :
          /\ CanCreate
          /\ Seek(offset, when)
    \/ Tick /\ UNCHANGED <<preConnect, player, sampler>>

SpecPlayer == InitPlayer /\ [][NextPlayer]_vars

\* A player constructed looping or not, synced or not, started, restarted
\* and re-rated while the clock runs and its sources end.
InitPlayback ==
    /\ now = 0
    /\ events = [d \in Dests |-> <<>>]
    /\ initialValue = [d \in Dests |-> IF d \in ParamLike THEN InitialValue ELSE 0]
    /\ overridden = [d \in Dests |-> FALSE]
    /\ connectedSignals = [s \in Sources |-> NoRecords]
    /\ last = PlayerCall("new")
    /\ preConnect = [curve |-> [t \in Times |-> InitialValue], at |-> 0,
                     touched |-> FALSE]
    /\ \E loop \in BOOLEAN, synced \in BOOLEAN, rate \in Rates :
          player = [NewPlayer(loop) EXCEPT !.synced = synced, !.playbackRate = rate]
    /\ sampler = NewSampler({})

NextPlayback ==
    \/ \E t \in FromNow, offset \in {Undef, 1}, duration \in {Undef, 1} :
          /\ CanCreate
          /\ ExactDuration(player, offset, duration)
          /\ Start(t, offset, duration)
    \/ \E t \in FromNow, offset \in {Undef, 1} :
          /\ CanRestart
          /\ ExactDuration(player, offset, Undef)
          /\ Restart(t, offset, Undef)
    \/ \E k \in 1..Len(player.activeSources) : SourceEnd(k)
    \/ Tick /\ UNCHANGED <<preConnect, player, sampler>>

SpecPlayback == InitPlayback /\ [][NextPlayback]_vars

\* A player started once or more, its playback rate and its loop flag
\* assigned while it plays.
NextRate ==
    \/ \E duration \in {Undef, 1} :
          /\ CanCreate
          /\ ExactDuration(player, Undef, duration)
          /\ Start(now, Undef, duration)
    \/ Stop(MaxTime)
    \/ \E rate \in Rates :
          /\ ExactStop(player, rate, now)
          /\ AssignPlaybackRate(rate)
    \/ \E loop \in BOOLEAN : AssignLoop(loop)
    \/ Tick /\ UNCHANGED <<preConnect, player, sampler>>

SpecRate == InitPlayer /\ [][NextRate]_vars

\* The loop points of a player assigned, in and out of the buffer, while it
\* plays.
NextLoopPoints ==
    \/ /\ CanCreate
       /\ LoopNotEmpty(player)
       /\ Start(now, Undef, Undef)
    \/ \E v \in LoopPoints : AssignLoopStart(v)
    \/ \E v \in LoopPoints : AssignLoopEnd(v)
    \/ Tick /\ UNCHANGED <<preConnect, player, sampler>>

SpecLoopPoints == InitPlayer /\ [][NextLoopPoints]_vars

\* A sampler constructed with buffers for some notes, given more, and asked
\* for the closest note; the notes lie at both ends of the search range.
Notes == {0, 1, 2, MAX_INTERVAL - 1, MAX_INTERVAL, MAX_INTERVAL + 1}
InitSampler ==
    /\ now = 0
    /\ events = [d \in Dests |-> <<>>]
    /\ initialValue = [d \in Dests |-> IF d \in ParamLike THEN InitialValue ELSE 0]
    /\ overridden = [d \in Dests |-> FALSE]
    /\ connectedSignals = [s \in Sources |-> NoRecords]
    /\ last = Call("new", FALSE, "none")
    /\ preConnect = [curve |-> [t \in Times |-> InitialValue], at |-> 0,
                     touched |-> FALSE]
    /\ player = NewPlayer(FALSE)
    /\ \E urls \in SUBSET Notes : sampler = NewSampler(urls)

NextSampler ==
    \/ \E note \in Notes : SamplerAdd(note)
    \/ \E midi \in Notes : FindClosest(midi)

SpecSampler == InitSampler /\ [][NextSampler]_vars

\* ================================================================ claims
\* Read off the claims, not off the handlers above.

\* x || 0: an omitted or zero index is recorded as 0
IndexOrZero(x) == IF x \in {Undef, 0} THEN 0 ELSE x
\* the override-capable destinations: a Param, a native AudioParam, a
\* Signal whose override flag is true
Capable == {"param", "audioParam", "signal"}
\* the destinations that carry an overridden flag
Flagged == {"param", "signal", "plainSignal"}
AllArgs == IdxArg \X IdxArg
Records(s) == connectedSignals[s].list
\* record c matches disconnect(d, o, i)
MatchesCall(c, d, o, i) ==
    \/ d = NoDest
    \/ /\ c.destination = d
       /\ (o = Undef \/ c.outputNum = o)
       /\ (i = Undef \/ c.inputNum = i)
\* the positions of the records of s that match, and the destinations they name
Matching(s, d, o, i) == {k \in 1..Len(Records(s)) : MatchesCall(Records(s)[k], d, o, i)}
Targets(s, K) == {Records(s)[k].destination : k \in K}
\* the snapshot of the last record of s at a position of K that names x
LastSnapshot(s, K, x) ==
    LET ks == {k \in K : Records(s)[k].destination = x}
        top == CHOOSE k \in ks : \A j \in ks : j <= k
    IN  Records(s)[top].previousValue
\* some live record of some source names d
Targeted(d) ==
    \E s \in Sources : \E k \in 1..Len(Records(s)) : Records(s)[k].destination = d
ValueAt(ev, d, t) == Evaluate(ev[d], initialValue[d], t)

\* C1: connectSignal(source, destination) with an override-capable
\* destination reads destination.value before it changes anything, then
\* cancels the destination's schedule from time 0, sets its value to 0 at
\* time 0, sets overridden (Signal or Param) and appends exactly one record
\* {destination, outputNum or 0, inputNum or 0, previousValue}, previousValue
\* being the value read before the zeroing.
C1_ConnectOverrides ==
    \A s \in Sources, d \in Capable, a \in AllArgs :
        \A r \in {connectSignal(s, d, a[1], a[2])} :
            LET valueBefore == ValueAt(events, d, now)
                old == Records(s)
                new == r.connectedSignals[s].list
            IN  /\ r.events[d] = <<Event(0, SetValueT, 0)>>
                /\ \A x \in Dests \ {d} : r.events[x] = events[x]
                /\ d \in Flagged => r.overridden[d]
                /\ \A x \in Dests \ (Flagged \cap {d}) : r.overridden[x] = overridden[x]
                /\ r.connectedSignals[s].has
                /\ Len(new) = Len(old) + 1
                /\ SubSeq(new, 1, Len(old)) = old
                /\ new[Len(new)] =
                      [destination |-> d, outputNum |-> IndexOrZero(a[1]),
                       inputNum |-> IndexOrZero(a[2]), previousValue |-> valueBefore]
                /\ \A s2 \in Sources \ {s} :
                      r.connectedSignals[s2] = connectedSignals[s2]

\* a connect has just recorded a non-zero snapshot of a destination it zeroed
C1_Witness ==
    /\ last = Connected
    /\ \E s \in Sources :
          LET l == Records(s) IN
          /\ l # <<>>
          /\ l[Len(l)].previousValue # 0
          /\ l[Len(l)].outputNum = 1
          /\ events[l[Len(l)].destination] = <<Event(0, SetValueT, 0)>>
          /\ DestValue(l[Len(l)].destination) = 0

\* C2: disconnectSignal applies to every matching record: it clears the
\* overridden flag of the record's destination (Signal or Param), calls
\* destination.setValueAtTime(previousValue, 0) with the record's snapshot and
\* removes the record, so that no matching record remains.
C2_DisconnectRestoresEach ==
    \A s \in Sources, d \in Dests \cup {NoDest}, a \in AllArgs :
        \A r \in {disconnectSignal(s, d, a[1], a[2])} :
            LET K == Matching(s, d, a[1], a[2])
                left == r.connectedSignals[s].list
            IN  K # {} =>
                  /\ r.last = Disconnected
                  /\ \A x \in Targets(s, K) :
                        /\ x \in Flagged => ~r.overridden[x]
                        /\ r.events[x] =
                              TimelineInsert(events[x],
                                  Event(0, SetValueT, LastSnapshot(s, K, x)))
                        /\ ValueAt(r.events, x, 0) = LastSnapshot(s, K, x)
                  /\ Len(left) = Len(Records(s)) - Cardinality(K)
                  /\ \A k \in 1..Len(left) : ~MatchesCall(left[k], d, a[1], a[2])

\* one disconnect without a destination has restored two destinations
C2_Witness ==
    /\ last = Disconnected
    /\ TotalRecords = 0
    /\ \E s \in Sources : connectedSignals[s].has
    /\ \E x, y \in Capable :
          /\ x # y
          /\ \A z \in {x, y} :
                /\ events[z] = <<Event(0, SetValueT, InitialValue)>>
                /\ ~overridden[z]

\* the automated parameter has been released by the source that overrode
\* it, and nothing was scheduled on it since that connect
Released ==
    /\ last = Disconnected
    /\ connectedSignals["sig"].has
    /\ Records("sig") = <<>>
    /\ ~preConnect.touched

\* C3 as claimed: connecting a source to a parameter that has automation
\* scheduled and later disconnecting it restores the prior automation:
\* after the disconnect getValueAtTime returns, at every time of the
\* original schedule, the value of the pre-connect curve at that time.
C3_RestoresCurve ==
    Released =>
        \A t \in Times : DestGetValueAtTime(Automated, t) = preConnect.curve[t]

\* C3, amended: the disconnect restores only the value the parameter had
\* at the moment of the connect, as a constant set at time 0: after the
\* disconnect getValueAtTime returns that snapshot at every time, and the
\* automation scheduled before the connect is not restored.
C3_RestoresSnapshot ==
    Released =>
        /\ events[Automated] =
              <<Event(0, SetValueT, preConnect.curve[preConnect.at])>>
        /\ \A t \in Times :
              DestGetValueAtTime(Automated, t) = preConnect.curve[preConnect.at]

\* the parameter was ramping when the source connected, and has been
\* released: it holds the snapshot, the ramp is gone
C3_Witness ==
    /\ Released
    /\ \E t \in Times : preConnect.curve[t] # preConnect.curve[preConnect.at]
    /\ DestGetValueAtTime(Automated, MaxTime) = preConnect.curve[preConnect.at]

\* C4 as claimed: a Signal/Param destination's overridden flag is true if
\* and only if at least one live connection record targets it.
C4_OverriddenIffTargeted ==
    \A d \in Flagged : overridden[d] <=> Targeted(d)

\* C4, amended: the overridden flag of a Signal/Param destination is true
\* only if at least one live connection record targets it.
C4_OverriddenOnlyIfTargeted ==
    \A d \in Flagged : overridden[d] => Targeted(d)

\* after a disconnect, a destination is still flagged and still targeted
C4_Witness ==
    /\ last = Disconnected
    /\ \E d \in Flagged : overridden[d] /\ Targeted(d)

\* C5 as claimed: a disconnect from a destination for which the source
\* holds no matching record fails with the not-connected error.
C5_NoMatchThrows ==
    \A s \in Sources, d \in Dests, a \in AllArgs :
        Matching(s, d, a[1], a[2]) = {} =>
            disconnectSignal(s, d, a[1], a[2]).last = Thrown

\* C5, amended: the error is raised when no record matches, the destination
\* is override-capable and the source has a record list (it has made an
\* overriding connection before); without a record list, or for a
\* destination that is not override-capable, it is not raised.
C5_NoMatchThrowsWhenLookedUp ==
    \A s \in Sources, d \in Dests, a \in AllArgs :
        \A r \in {disconnectSignal(s, d, a[1], a[2])} :
            Matching(s, d, a[1], a[2]) = {} =>
                IF d \in Capable /\ connectedSignals[s].has
                THEN r.last = Thrown
                ELSE r.last = Disconnected

\* a disconnect has failed while records of other connections are live
C5_Witness == last = Thrown /\ TotalRecords > 0

\* C6: disconnectSignal(source, destination, o, i) acts on exactly the
\* records of the source whose destination is the given one and whose
\* indices equal o and i where given; without a destination, on all of them.
C6_ActsOnMatching ==
    \A s \in Sources, d \in Dests \cup {NoDest}, a \in AllArgs :
        \A r \in {disconnectSignal(s, d, a[1], a[2])} :
            LET K == Matching(s, d, a[1], a[2]) IN
            /\ r.connectedSignals[s].list =
                  SelectSeq(Records(s), LAMBDA c : ~MatchesCall(c, d, a[1], a[2]))
            /\ \A s2 \in Sources \ {s} : r.connectedSignals[s2] = connectedSignals[s2]
            /\ \A x \in Dests :
                  IF x \in Targets(s, K)
                  THEN /\ ValueAt(r.events, x, 0) = LastSnapshot(s, K, x)
                       /\ x \in Flagged => ~r.overridden[x]
                  ELSE /\ r.events[x] = events[x]
                       /\ r.overridden[x] = overridden[x]

\* a source that connected to the parameter twice has disconnected one of
\* the two connections by its index: the other record is still there
C6_Witness ==
    /\ last = Disconnected
    /\ ~connectedSignals["op"].has
    /\ Len(Records("sig")) = 1
    /\ Records("sig")[1].destination = "param"
    /\ ~overridden["param"]

\* C7: connectSignal always makes the graph connection; when the
\* destination is not override-capable no record is added and the
\* destination's value, schedule and overridden flag are left as they were.
C7_AlwaysConnects ==
    \A s \in Sources, d \in Dests, a \in AllArgs :
        \A r \in {NodeConnect(s, d, a[1], a[2])} :
            /\ r.last.graph = "connect"
            /\ ~r.last.threw
            /\ d \notin Capable =>
                  /\ r.connectedSignals = connectedSignals
                  /\ r.events = events
                  /\ r.overridden = overridden
                  /\ \A t \in Times : ValueAt(r.events, d, t) = ValueAt(events, d, t)

\* a connect to a destination that is not override-capable has been made
C7_Witness ==
    /\ last = Connected
    /\ \A s \in Sources : ~connectedSignals[s].has
    /\ \A d \in Dests : events[d] = <<>> /\ ~overridden[d]

\* C8 as claimed: every call of disconnect makes the graph disconnection,
\* whatever the record lookup finds.
C8_AlwaysDisconnects ==
    \A s \in Sources, d \in Dests \cup {NoDest}, a \in AllArgs :
        NodeDisconnect(s, d, a[1], a[2]).last.graph = "disconnect"

\* C8, amended: every call of disconnect that does not fail with the
\* not-connected error makes the graph disconnection; a call that fails
\* with it makes none.
C8_DisconnectsUnlessThrown ==
    \A s \in Sources, d \in Dests \cup {NoDest}, a \in AllArgs :
        \A r \in {NodeDisconnect(s, d, a[1], a[2])} :
            IF r.last.threw
            THEN r.last.graph = "none"
            ELSE r.last.graph = "disconnect"

\* a disconnect has removed the last record of a source and unwired it
C8_Witness ==
    /\ last = Disconnected
    /\ last.graph = "disconnect"
    /\ \E s \in Sources : connectedSignals[s].has /\ Records(s) = <<>>

\* the value of D once first and then second have disconnected from it
FinalValue(D, first, second) ==
    LET r1 == disconnectSignal(first, D, Undef, Undef)
        conns2 == Pick(Records(second), Selected(second, D, Undef, Undef), 1)
    IN  ValueAt(RestoreEvents(r1.events, conns2), D, now)

\* C9: when two sources both override the same destination D and then both
\* disconnect, the snapshot restored by the last disconnect wins: D ends
\* with the snapshot of the source that disconnects last, so the two orders
\* end differently when the snapshots differ.
C9_LastDisconnectWins ==
    \A D \in Capable :
        LET A == Matching("sig", D, Undef, Undef)
            B == Matching("op", D, Undef, Undef)
        IN  (Cardinality(A) = 1 /\ Cardinality(B) = 1) =>
                /\ FinalValue(D, "sig", "op") = LastSnapshot("op", B, D)
                /\ FinalValue(D, "op", "sig") = LastSnapshot("sig", A, D)

\* both sources override one destination with different snapshots: the two
\* orders of disconnecting leave it with different values
C9_Witness ==
    \E D \in Capable :
        /\ Cardinality(Matching("sig", D, Undef, Undef)) = 1
        /\ Cardinality(Matching("op", D, Undef, Undef)) = 1
        /\ FinalValue(D, "sig", "op") # FinalValue(D, "op", "sig")

\* the times at which tl holds an event
Slots(tl) == {tl[k].time : k \in 1..Len(tl)}
\* the events of tl after time t
Future(tl, t) == {tl[k] : k \in {j \in 1..Len(tl) : tl[j].time > t}}
Members(tl) == {tl[k] : k \in 1..Len(tl)}

Scheduled == events["signal"]
Initial == initialValue["signal"]
\* the scheduled events: those a scheduling call inserted
IsScheduled(e) == e.type \in {SetValueT, LinearRampT}

\* C11: cancelScheduledValues(t) removes every event of the parameter whose
\* time is at or after t and removes no event whose time is before t, for
\* every timeline and every t.
C11_CancelFromTime ==
    \A t \in Times :
        \A new \in {DestCancelScheduledValues("signal", Scheduled, t)} :
            /\ \A e \in Members(Scheduled) :
                  IF e.time < t THEN e \in Members(new) ELSE e \notin Members(new)
            /\ SelectSeq(new, LAMBDA e : e.time < t)
                  = SelectSeq(Scheduled, LAMBDA e : e.time < t)
            /\ \A e \in Members(new) : e.time >= t => ~IsScheduled(e)

\* a cancellation at the last time has removed the ramp that ended there
\* and kept the event before it
C11_Witness ==
    /\ last.op = "cancelScheduledValues"
    /\ Len(Scheduled) = 2
    /\ IsScheduled(Scheduled[1])
    /\ Scheduled[2] = Event(MaxTime, HoldT, Scheduled[2].value)

\* C12: after setValueAtTime(v0, t0), linearRampToValueAtTime(v1, t1) and
\* cancelScheduledValues(tc) with t0 < tc < t1, getValueAtTime(t) for
\* t >= tc returns the ramp's linearly interpolated value at tc (the held
\* value), not v1.
C12_CancelHoldsRamp ==
    \A t0, tc, t1 \in Times, v0, v1 \in Values :
        (t0 < tc /\ tc < t1 /\ Slots(Scheduled) \cap ((t0 + 1)..(t1 - 1)) = {}) =>
            LET set == DestSetValueAtTime("signal", Scheduled, v0, t0)
                ramp == DestLinearRampToValueAtTime("signal", set, v1, t1)
                cut == DestCancelScheduledValues("signal", ramp, tc)
                held == LinearInterpolate(t0, v0, t1, v1, tc)
            IN  \A t \in Times :
                    t >= tc => Evaluate(cut, Initial, t) = held

\* 0 at time 0, a ramp to MaxVal at MaxTime, cancelled at time 1: the value
\* the ramp had at 1 is held to the end, neither 0 nor MaxVal
C12_Witness ==
    /\ last.op = "cancelScheduledValues"
    /\ Len(Scheduled) = 2
    /\ Scheduled[1] = Event(0, SetValueT, 0)
    /\ Scheduled[2].time = 1
    /\ Scheduled[2].type = HoldT
    /\ DestGetValueAtTime("signal", MaxTime) \notin {0, MaxVal}

\* C13: round trip: for every value v within the clamp bounds, every time t
\* and every prior timeline, setValueAtTime(v, t) followed immediately by
\* getValueAtTime(t) returns v.
C13_SetThenGet ==
    \A v \in Values, t \in Times :
        \A new \in {DestSetValueAtTime("signal", Scheduled, v, t)} :
            Evaluate(new, Initial, t) = v

\* a value was set at a time from which a ramp to another value leaves:
\* the value read back at that time is the value set
C13_Witness ==
    /\ last.op = "setValueAtTime"
    /\ Len(Scheduled) = 2
    /\ Scheduled[1].type = SetValueT
    /\ Scheduled[2].type = LinearRampT
    /\ Scheduled[2].value # Scheduled[1].value
    /\ DestGetValueAtTime("signal", Scheduled[1].time) = Scheduled[1].value
    /\ DestGetValueAtTime("signal", Scheduled[1].time) # Initial

\* the events of tl are in strictly increasing time order
StrictlyIncreasing(tl) == \A j, k \in 1..Len(tl) : j < k => tl[j].time < tl[k].time

\* C15: after any sequence of scheduling and cancellation operations the
\* events of a parameter are in strictly increasing time order: no two
\* stored events share a time, and inserting an event at an occupied time
\* replaces the older event.
C15_StrictOrder ==
    /\ StrictlyIncreasing(Scheduled)
    /\ \A v \in Values, t \in Times :
          \A new \in {DestSetValueAtTime("signal", Scheduled, v, t),
                      DestLinearRampToValueAtTime("signal", Scheduled, v, t)} :
              /\ StrictlyIncreasing(new)
              /\ {e \in Members(new) : e.time # t}
                    = {e \in Members(Scheduled) : e.time # t}
              /\ \E e \in Members(new) : e.time = t /\ e.value = v /\ IsScheduled(e)
              /\ Len(new) = Cardinality(Slots(Scheduled) \cup {t})

\* the timeline is full and a scheduling call was made last
C15_Witness ==
    /\ last.op \in {"setValueAtTime", "linearRampToValueAtTime"}
    /\ Len(Scheduled) = MaxEvents
    /\ Scheduled[1].time < Scheduled[2].time
    /\ Scheduled[1].type = LinearRampT

\* C16: cancelAndHoldAtTime(t) preserves continuity: after the call the
\* timeline has a SetValue event at t whose value is the value the parameter
\* evaluated to at t before the call, no scheduled event after t remains,
\* and getValueAtTime(t') for every t' >= t returns that held value.
C16_CancelAndHold ==
    \A t \in Times :
        \A new \in {DestCancelAndHoldAtTime("signal", Scheduled, t)} :
            LET held == Evaluate(Scheduled, Initial, t) IN
            /\ Event(t, SetValueT, held) \in Members(new)
            /\ \A e \in Members(new) : e.time <= t
            /\ \A e \in Members(Scheduled) : e.time < t => e \in Members(new)
            /\ \A t2 \in Times : t2 >= t => Evaluate(new, Initial, t2) = held

\* a ramp from 0 at time 0 was cancelled and held at time 1: a SetValue
\* event at 1 holds the value the ramp had there
C16_Witness ==
    /\ last.op = "cancelAndHoldAtTime"
    /\ Len(Scheduled) = 2
    /\ Scheduled = <<Event(0, SetValueT, 0), Event(1, SetValueT, Scheduled[2].value)>>
    /\ Scheduled[2].value \notin {0, Initial}
    /\ DestGetValueAtTime("signal", MaxTime) = Scheduled[2].value

\* the value lies outside the finite range, a time constant or duration is
\* zero or negative
Outside(v) == v \notin MinValue..MaxValue
Invalid(k) == ~(k > 0)
\* the timelines the five scheduling calls leave, and whether they fail
ScheduleResults ==
    {[bad |-> Outside(v), fails |-> RangeError(v), new |-> SignalSetValueAtTime(Scheduled, v, t)]
        : v \in RangeValues, t \in Times}
    \cup
    {[bad |-> Outside(v), fails |-> RangeError(v),
      new |-> SignalLinearRampToValueAtTime(Scheduled, v, t)]
        : v \in RangeValues, t \in Times}
    \cup
    {[bad |-> Outside(v), fails |-> RangeError(v),
      new |-> SignalExponentialRampToValueAtTime(Scheduled, v, t)]
        : v \in RangeValues, t \in Times}
    \cup
    UNION {{[bad |-> Outside(v) \/ Invalid(c), fails |-> SetTargetFails(v, c),
             new |-> SignalSetTargetAtTime(Scheduled, v, t, c)]
              : v \in RangeValues, t \in Times} : c \in Durations}
    \cup
    UNION {{[bad |-> (\E k \in 1..Len(vs) : Outside(vs[k])) \/ Invalid(dur),
             fails |-> SetValueCurveFails(vs, dur),
             new |-> SignalSetValueCurveAtTime(Scheduled, vs, t, dur)]
              : vs \in Curves, t \in Times} : dur \in Durations}

\* C14: a scheduling operation (setValueAtTime, linearRampToValueAtTime,
\* exponentialRampToValueAtTime, setTargetAtTime, setValueCurveAtTime) whose
\* value lies outside the finite [minValue, maxValue], or whose timeConstant
\* or duration is <= 0, fails with RangeError at schedule time and inserts
\* no event into the timeline, so that no stored event has a value outside
\* the range or a time constant or duration that is not positive.
C14_RangeErrorInsertsNothing ==
    /\ \A r \in ScheduleResults :
          r.bad => (r.fails /\ r.new = Scheduled)
    /\ \A e \in Members(Scheduled) :
          /\ ~Outside(e.value)
          /\ e.type = SetTargetT => e.constant > 0
          /\ e.type = CurveT =>
                /\ e.duration > 0
                /\ \A k \in 1..Len(e.curve) : ~Outside(e.curve[k])

\* a setTargetAtTime call has failed on a timeline that holds events
C14_Witness ==
    /\ last.op = "setTargetAtTime"
    /\ last.threw
    /\ Len(Scheduled) = MaxEvents

\* ---------------------------------------------------------------- seek
\* the events a timeline holds, as a set
Removed(before, after) == Members(before) \ Members(after)

\* C17: seek(offset, when) on a player whose state at when is not "started"
\* changes nothing: no source is created or stopped, and the state
\* timeline, the progress-offset timeline and the progress tracker are as
\* they were.
C17_SeekNotStartedNoChange ==
    \A offset \in Offsets, when \in Times :
        StateAtTime(player.state, when) # Started =>
            \A q \in {seek(player, offset, when)} :
                /\ q.activeSources = player.activeSources
                /\ q.state = player.state
                /\ q.progressOffset = player.progressOffset
                /\ q.progressTracker = player.progressTracker
                /\ q = player

\* a seek has returned on a player whose sources have all been stopped: it
\* created none
C17_Witness ==
    /\ last.op = "seek"
    /\ player.activeSources # <<>>
    /\ \A k \in 1..Len(player.activeSources) :
          player.activeSources[k].stopTime # Undef
    /\ StateAtTime(player.state, now) = Stopped

\* C18: seek(offset, when) on a player whose state at when is "started"
\* keeps the player started: every active source is stopped at when, only
\* "stopped" events leave the state timeline, exactly one new source is
\* started at offset at time when, and the state at when is still
\* "started", whatever the start time at or before when.
C18_SeekKeepsStarted ==
    \A offset \in Offsets, when \in Times :
        StateAtTime(player.state, when) = Started =>
            \A q \in {seek(player, offset, when)} :
                /\ Len(q.activeSources) = Len(player.activeSources) + 1
                /\ \A k \in 1..Len(player.activeSources) :
                      q.activeSources[k] =
                          [player.activeSources[k] EXCEPT !.stopTime = when]
                /\ q.activeSources[Len(q.activeSources)].start = when
                /\ q.activeSources[Len(q.activeSources)].offset = offset
                /\ \A e \in Removed(player.state, q.state) : e.state = Stopped
                /\ StateAtTime(q.state, when) = Started

\* ------------------------------------------------- repeated connects
\* C19: after any number n >= 1 of connects of the same source to the same
\* override-capable destination followed by one disconnect(destination),
\* the destination's value is the value it had before the first of those
\* connects.
C19_RoundTripAnyCount ==
    Released => ParamValue(Automated) = preConnect.curve[preConnect.at]

\* -------------------------------------------- destination omitted
\* C20: disconnect with the destination omitted never fails with the
\* not-connected error: whatever the record list of the source (absent,
\* holding records, or emptied by earlier disconnects), it restores every
\* recorded destination, leaves no record and disconnects the graph.
C20_OmittedNeverThrows ==
    \A s \in Sources, a \in AllArgs :
        \A r \in {NodeDisconnect(s, NoDest, a[1], a[2])} :
            /\ r.last # Thrown
            /\ r.last.graph = "disconnect"
            /\ r.connectedSignals[s].list = <<>>
            /\ \A k \in 1..Len(Records(s)) :
                  ~r.overridden[Records(s)[k].destination]

\* ------------------------------------------------ the failing disconnect
\* C21: when disconnectSignal fails with the not-connected error nothing
\* has changed: no record has left any source's list, and no destination's
\* timeline (hence value) or overridden flag has been written.
C21_ThrowChangesNothing ==
    \A s \in Sources, d \in Dests \cup {NoDest}, a \in AllArgs :
        \A r \in {disconnectSignal(s, d, a[1], a[2])} :
            r.last = Thrown =>
                /\ r.connectedSignals = connectedSignals
                /\ r.events = events
                /\ r.overridden = overridden

\* a disconnect has failed on a source that holds two records, whose
\* destination is still overridden
C21_Witness ==
    /\ last = Thrown
    /\ \E s \in Sources :
          /\ Len(Records(s)) = MaxRecords
          /\ \E k \in 1..Len(Records(s)) : overridden[Records(s)[k].destination]

\* ------------------------------------------- SignalOperator sources
\* what disconnect(d) with the indices omitted is to do for source s: no
\* error, no record of d left, d restored to a recorded snapshot and no
\* longer flagged as overridden
DisconnectsAll(s, d) ==
    \A r \in {NodeDisconnect(s, d, Undef, Undef)} :
        /\ r.last = Disconnected
        /\ r.connectedSignals[s].list =
              SelectSeq(Records(s), LAMBDA c : c.destination # d)
        /\ ValueAt(r.events, d, 0) = LastSnapshot(s, Matching(s, d, Undef, Undef), d)
        /\ d \in Flagged => ~r.overridden[d]

\* C22: for a SignalOperator source, as for a Signal source,
\* connect(destination, o, i) followed by disconnect(destination) with the
\* indices omitted removes the record made by that connect and restores
\* the destination, whatever the output index o and the input index i:
\* omitted indices match any record of the destination.
C22_OperatorDisconnectsLikeSignal ==
    \A s \in Sources :
        \A k \in 1..Len(Records(s)) : DisconnectsAll(s, Records(s)[k].destination)

\* ------------------------------------------ the frame of a disconnect
\* C23: a successful disconnectSignal(source, destination, o, i) leaves as
\* they were every record of the source that names another destination or
\* does not match the given indices, every record list of another source,
\* and the timeline (hence value) and overridden flag of every destination
\* that no matched record names.
C23_DisconnectFrame ==
    \A s \in Sources, d \in Dests \cup {NoDest}, a \in AllArgs :
        \A r \in {disconnectSignal(s, d, a[1], a[2])} :
            r.last = Disconnected =>
                /\ SelectSeq(r.connectedSignals[s].list,
                             LAMBDA c : ~MatchesCall(c, d, a[1], a[2]))
                      = SelectSeq(Records(s), LAMBDA c : ~MatchesCall(c, d, a[1], a[2]))
                /\ \A s2 \in Sources \ {s} :
                      r.connectedSignals[s2] = connectedSignals[s2]
                /\ \A x \in Dests \ Targets(s, Matching(s, d, a[1], a[2])) :
                      /\ r.events[x] = events[x]
                      /\ r.overridden[x] = overridden[x]

\* a source that overrides the parameter and the signal has disconnected
\* from the parameter: its record of the signal is still there and the
\* signal is still zeroed and overridden
C23_Witness ==
    /\ last = Disconnected
    /\ Len(Records("sig")) = 1
    /\ Records("sig")[1].destination = "signal"
    /\ overridden["signal"]
    /\ events["signal"] = <<Event(0, SetValueT, 0)>>
    /\ ~overridden["param"]
    /\ events["param"] = <<Event(0, SetValueT, InitialValue)>>

\* ------------------------------------------------------ a source ends
\* C24: when a source of the player ends it leaves the active-source set;
\* if the set is then empty, the player is not synced and the state at the
\* current time is "started", the state events at or after now are
\* cancelled and the state at now becomes "stopped"; in every other case
\* the state timeline is left as it was.
C24_SourceEndStops ==
    \A k \in 1..Len(player.activeSources) :
        \A q \in {onSourceEnd(player, k, now)} :
            /\ q.activeSources = RemoveAt(player.activeSources, k)
            /\ IF /\ Len(player.activeSources) = 1
                  /\ ~player.synced
                  /\ StateAtTime(player.state, now) = Started
               THEN /\ Before(q.state, now) = Before(player.state, now)
                    /\ After(q.state, now) = <<>>
                    /\ StateAtTime(q.state, now) = Stopped
               ELSE q.state = player.state

\* the last source of a player that was still started has ended: the
\* state timeline ends with an explicit stop
C24_Witness ==
    /\ last.op = "onended"
    /\ player.activeSources = <<>>
    /\ ~player.synced
    /\ player.state # <<>>
    /\ player.state[Len(player.state)] = StateEvent(now, Stopped, FALSE)

\* ---------------------------------------------------------- _start
\* the arguments _start is given
StartOffsets == Offsets \cup {Undef}
StartDurations == (1..BufferDuration) \cup {Undef}
\* T: startTime + duration / playbackRate, the duration defaulting to
\* max(buffer.duration - offset, 0)
EndTime(p, startTime, offset, duration) ==
    startTime
    + DefaultArg(duration,
          Max(BufferDuration - DefaultArg(offset, IF p.loop THEN p.loopStart ELSE 0), 0))
      \div p.playbackRate

\* C25: each _start on a player that neither loops nor is synced cancels
\* the state events at or after T = startTime + duration / playbackRate and
\* schedules exactly one "stopped" event flagged implicitEnd at T; a _start
\* on a looping or synced player adds no state event. In both cases exactly
\* one new source joins the active sources.
C25_StartSchedulesImplicitEnd ==
    \A t \in Times, offset \in StartOffsets, duration \in StartDurations :
        ExactDuration(player, offset, duration) =>
            \A q \in {PlayerStart(player, t, offset, duration)} :
                /\ Len(q.activeSources) = Len(player.activeSources) + 1
                /\ SubSeq(q.activeSources, 1, Len(player.activeSources))
                      = player.activeSources
                /\ q.activeSources[Len(q.activeSources)].start = t
                /\ IF ~player.loop /\ ~player.synced
                   THEN q.state =
                            Before(player.state, EndTime(player, t, offset, duration))
                            \o <<StateEvent(EndTime(player, t, offset, duration),
                                            Stopped, TRUE)>>
                   ELSE q.state = player.state

\* a player at double rate that neither loops nor is synced has been
\* started: its implicit end is half the buffer's duration later
C25_Witness ==
    /\ last.op = "start"
    /\ ~player.loop
    /\ ~player.synced
    /\ player.playbackRate > 1
    /\ Len(player.activeSources) = 1
    /\ Len(player.state) = 2
    /\ player.state[2] =
          StateEvent(player.state[1].time + BufferDuration \div player.playbackRate,
                     Stopped, TRUE)

\* -------------------------------------------------------- _restart
\* C26: _restart stops only the most recently created active source: of
\* the k active sources the last added receives stop(time), the other
\* k - 1 receive no stop call, and then one new source is started.
C26_RestartStopsLast ==
    \A t \in Times, offset \in StartOffsets, duration \in StartDurations :
        \A q \in {PlayerRestart(player, t, offset, duration)} :
            LET k == Len(player.activeSources) IN
            /\ Len(q.activeSources) = k + 1
            /\ \A j \in 1..(k - 1) : q.activeSources[j] = player.activeSources[j]
            /\ k >= 1 =>
                  q.activeSources[k] = [player.activeSources[k] EXCEPT !.stopTime = t]
            /\ q.activeSources[k + 1].start = t
            /\ q.activeSources[k + 1].stopTime = Undef

\* a player with two active sources has been restarted: the older source
\* was not stopped, the newer was, and a third plays
C26_Witness ==
    /\ last.op = "restart"
    /\ Len(player.activeSources) = MaxSources + 1
    /\ player.activeSources[1].stopTime = Undef
    /\ player.activeSources[MaxSources].stopTime # Undef
    /\ player.activeSources[MaxSources + 1].stopTime = Undef

\* ------------------------------------------------- playbackRate
\* the next "stopped" event after now is an implicit end
NextStopImplicit ==
    /\ HasNextState(player.state, Stopped, now)
    /\ GetNextState(player.state, Stopped, now).implicitEnd
\* now + (buffer.duration - progress(now)) / rate
NewStopTime(rate) == now + (BufferDuration - GetProgressAtTime(player, now)) \div rate

\* C27: assigning playbackRate = rate reschedules only an implicit end: if
\* the next "stopped" state event after now is flagged implicitEnd, it is
\* cancelled and replaced by exactly one implicitEnd "stopped" event at
\* now + (buffer.duration - progress(now)) / rate; if the next "stopped"
\* event is not an implicit end, or there is none, the state timeline is
\* unchanged.
C27_RateReschedulesImplicitEnd ==
    \A rate \in Rates :
        ExactStop(player, rate, now) =>
            \A q \in {SetPlaybackRate(player, rate, now)} :
                IF NextStopImplicit
                THEN LET stopEvent == GetNextState(player.state, Stopped, now)
                         newEvent == StateEvent(NewStopTime(rate), Stopped, TRUE)
                     IN  /\ newEvent \in Members(q.state)
                         /\ Members(q.state) \ Members(player.state) \subseteq {newEvent}
                         /\ stopEvent # newEvent => stopEvent \notin Members(q.state)
                         /\ \A e \in Members(Before(player.state, stopEvent.time)) :
                               e.time # newEvent.time => e \in Members(q.state)
                         /\ \A e \in Members(q.state) :
                               (e.state = Stopped /\ e.implicitEnd /\ e.time > now)
                                   => e = newEvent
                ELSE q.state = player.state

\* a player started at rate 1 has been set to a higher rate: its source
\* runs at the new rate and the implicit end has moved from the buffer's
\* duration after the start to an earlier time
C27_Witness ==
    /\ last.op = "playbackRate"
    /\ player.playbackRate > 1
    /\ Len(player.activeSources) = 1
    /\ player.activeSources[1].duration = BufferDuration
    /\ player.activeSources[1].playbackRate = player.playbackRate
    /\ Len(player.state) = 2
    /\ player.state[1].state = Started
    /\ player.state[2].state = Stopped
    /\ player.state[2].implicitEnd
    /\ player.state[2].time < player.state[1].time + BufferDuration

\* ---------------------------------------------------------- loop
\* C28: assigning loop its current value changes nothing; assigning true
\* when it was false sets loop on every active source and cancels the next
\* scheduled "stopped" state event after now; assigning false when it was
\* true cancels no state event.
C28_LoopAssignment ==
    \A loop \in BOOLEAN :
        \A q \in {SetLoop(player, loop, now)} :
            IF loop = player.loop
            THEN q = player
            ELSE /\ q.loop = loop
                 /\ q.activeSources = SourcesWith(player.activeSources, "loop", loop)
                 /\ IF loop /\ HasNextState(player.state, Stopped, now)
                    THEN /\ GetNextState(player.state, Stopped, now) \notin Members(q.state)
                         /\ q.state =
                               Before(player.state,
                                      GetNextState(player.state, Stopped, now).time)
                    ELSE q.state = player.state

\* a player started without looping has been set to loop: its source
\* loops and the end scheduled by the start is gone
C28_Witness ==
    /\ last.op = "loop"
    /\ player.loop
    /\ Len(player.activeSources) = 1
    /\ player.activeSources[1].loop
    /\ player.activeSources[1].duration = BufferDuration
    /\ player.state = <<StateEvent(player.activeSources[1].start, Started, FALSE)>>

\* ---------------------------------------------------- loop points
\* C29: if assigning loopStart or loopEnd on a player with a loaded buffer
\* fails the range assertion (value outside [0, buffer.duration]), the
\* player's stored loop point keeps its previous value and no active
\* source's loop point is changed.
C29_FailedAssignKeepsLoopPoint ==
    \A v \in LoopPoints :
        /\ \A r \in {SetLoopStart(player, v)} :
              r.threw =>
                  /\ r.player.loopStart = player.loopStart
                  /\ r.player.activeSources = player.activeSources
        /\ \A r \in {SetLoopEnd(player, v)} :
              r.threw =>
                  /\ r.player.loopEnd = player.loopEnd
                  /\ r.player.activeSources = player.activeSources

\* ------------------------------------------------------ _findClosest
Distance(a, b) == IF a >= b THEN a - b ELSE b - a
\* a buffer exists for some note at most MAX_INTERVAL semitones from midi
WithinRange(midi) ==
    \E b \in sampler.buffers : Distance(b, midi) <= MAX_INTERVAL

\* C30: _findClosest(midi) searches within 8 octaves of the note: it
\* returns a difference whenever a buffer exists for some note at most 96
\* semitones away from midi, and throws "No available buffers for note"
\* only when no buffer exists within that distance.
C30_SearchesEightOctaves ==
    \A midi \in Notes :
        findClosest(sampler.buffers, midi).threw <=> ~WithinRange(midi)

\* C31: when _findClosest(midi) returns d, a buffer exists at midi - d (the
\* note triggerAttack then plays), |d| is the smallest distance from midi
\* to any provided buffer, and when buffers exist at the same distance
\* above and below midi the one above is chosen: d = -distance.
C31_ClosestAbovePreferred ==
    \A midi \in Notes :
        \A r \in {findClosest(sampler.buffers, midi)} :
            ~r.threw =>
                /\ midi - r.difference \in sampler.buffers
                /\ \A b \in sampler.buffers :
                      Distance(midi, midi - r.difference) <= Distance(midi, b)
                /\ \A dist \in Intervals :
                      (/\ Distance(midi, midi - r.difference) = dist
                       /\ midi + dist \in sampler.buffers
                       /\ midi - dist \in sampler.buffers)
                          => r.difference = 0 - dist

\* a lookup between two buffers one semitone away on either side, none at
\* the note itself, has returned the note above
C31_Witness ==
    /\ last.op = "_findClosest"
    /\ ~last.threw
    /\ sampler.midi \notin sampler.buffers
    /\ sampler.midi + 1 \in sampler.buffers
    /\ sampler.midi - 1 \in sampler.buffers
    /\ sampler.found = Found(0 - 1)

====
